---- MODULE Spec2Model ----
(***************************************************************************)
(* Model of session-types-rmp (src/src/lib.rs): the MessagePack carrier    *)
(* `Channel` with `Value<T>` send/recv and boolean choices, and the        *)
(* search-session handlers `server` / `client` driven by `tcp_comm`.       *)
(*                                                                         *)
(* The two byte streams of the duplex connection are sequences of bytes    *)
(* (0..255).  Every action is one carrier operation (send, recv,           *)
(* send_choice, recv_choice) of one endpoint, or one step of the drivers   *)
(* in tcp_comm.  The session_types_ng combinators used by the handlers     *)
(* drive the carrier as follows: first() is send_choice(true); second()    *)
(* is send_choice(false) followed by send_choice(true); offer().option(f)  *)
(* is recv_choice(), taking the option on true and moving to the next      *)
(* option on false; enter(), zero() and shutdown() do no I/O.              *)
(***************************************************************************)
EXTENDS Integers, Sequences, FiniteSets, TLC

VARIABLES
    c2s,            \* bytes written by the client, not yet read by the server
    s2c,            \* bytes written by the server, not yet read by the client
    c2s_msgs,       \* history: the values whose encodings are in c2s
    s2c_msgs,       \* history: the values whose encodings are in s2c
    c2s_sess,       \* history: the client session that sent each value of c2s_msgs
    s2c_sess,       \* history: the server session that sent each value of s2c_msgs
    cut,            \* directions whose stream was cut by a fault
    faults_left,    \* injected faults still allowed in this behaviour
    cli_pc,         \* client thread: position in tcp_comm / client
    cli_sample,     \* client: `sample`
    cli_values,     \* client: `values` (the whole input sequence)
    cli_pos,        \* client: items the `for` loop has taken from `values`
    maybe_pos,      \* client: returned Option<usize>, <<>> = None, <<i>> = Some(i)
    prev_pos,       \* history: maybe_pos of the previous session
    cli_sessions,   \* number of client sessions started
    cli_err,        \* error the client thread panicked with, or "none"
    cli_trace,      \* history: carrier operations of the current client session
    cli_op,         \* history: the client's last carrier operation
    srv_pc,         \* server thread: position in tcp_comm closure / server
    srv_sample,     \* server: `sample`
    values_count,   \* server: `values_count`
    shutdown,       \* server: the flag returned by `server`
    srv_end,        \* history: how the current server session ended
    srv_sessions,   \* number of server sessions started
    srv_err,        \* error the server thread panicked with, or "none"
    srv_trace,      \* history: operations of the current server session
    srv_op          \* history: the server's last carrier operation

netVars == <<c2s, s2c, c2s_msgs, s2c_msgs, c2s_sess, s2c_sess, cut, faults_left>>
cliVars == <<cli_pc, cli_sample, cli_values, cli_pos, maybe_pos, prev_pos,
             cli_sessions, cli_err, cli_trace, cli_op>>
srvVars == <<srv_pc, srv_sample, values_count, shutdown, srv_end,
             srv_sessions, srv_err, srv_trace, srv_op>>
vars == <<netVars, cliVars, srvVars>>

(***************************************************************************)
(* Bounds of the model.                                                    *)
(***************************************************************************)
MaxLen == 3          \* longest `values` sequence a client session is given
MaxSessions == 2     \* client sessions before the client must quit
MaxFaults == 1       \* injected faults per behaviour of FaultSpec
FairLen == 2         \* longest `values` sequence under FairSpec
FairSessions == 1    \* client sessions under FairSpec
FaultLen == 1        \* longest `values` sequence under FaultSpec
FaultSessions == 1   \* client sessions under FaultSpec

\* isize inputs: one of each MessagePack integer family that fits a byte pair
Vals == {-33, -1, 200}

\* isize inputs under FaultSpec: the two whose encodings take two bytes
FaultVals == {-33, 200}

\* The sequences over vals of length at most n
RECURSIVE SeqsUpTo(_, _)
SeqsUpTo(vals, n) ==
    IF n = 0 THEN {<<>>}
    ELSE LET shorter == SeqsUpTo(vals, n - 1)
         IN shorter \cup {Append(s, v) : s \in {t \in shorter : Len(t) = n - 1}, v \in vals}

(***************************************************************************)
(* The codec: rmp_serde's Serializer / Deserializer on bool, isize, usize. *)
(***************************************************************************)
MarkerFalse == 194      \* 0xc2
MarkerTrue == 195       \* 0xc3
MarkerU8 == 204         \* 0xcc
MarkerU16 == 205        \* 0xcd
MarkerI8 == 208         \* 0xd0
MarkerI16 == 209        \* 0xd1
MarkerNever == 193      \* 0xc1, the marker MessagePack never uses
FixPosMax == 127        \* positive fixint 0x00..0x7f
FixNegMin == 224        \* negative fixint 0xe0..0xff
ByteRange == 256
WordRange == 65536

EncBool(b) == IF b THEN <<MarkerTrue>> ELSE <<MarkerFalse>>

EncUint(v) ==
    IF v <= FixPosMax THEN <<v>>
    ELSE IF v < ByteRange THEN <<MarkerU8, v>>
    ELSE <<MarkerU16, v \div ByteRange, v % ByteRange>>

EncInt(v) ==
    IF v >= 0 THEN EncUint(v)
    ELSE IF v >= FixNegMin - ByteRange THEN <<ByteRange + v>>
    ELSE IF v >= -(ByteRange \div 2) THEN <<MarkerI8, ByteRange + v>>
    ELSE <<MarkerI16, (WordRange + v) \div ByteRange, (WordRange + v) % ByteRange>>

\* ty is "bool", "int" (isize) or "uint" (usize)
Encode(ty, v) ==
    IF ty = "bool" THEN EncBool(v)
    ELSE IF ty = "uint" THEN EncUint(v)
    ELSE EncInt(v)

\* A value as the histories record it: booleans as 1 / 0.
Num(ty, v) == IF ty = "bool" THEN (IF v THEN 1 ELSE 0) ELSE v

DecOk(v, n) == [st |-> "ok", v |-> v, n |-> n]
DecErr == [st |-> "err", v |-> 0, n |-> 0]
DecNeed == [st |-> "need", v |-> 0, n |-> 0]

DecodeNumUnsigned(in) ==
    IF in = <<>> THEN DecNeed
    ELSE LET m == Head(in) IN
         IF m <= FixPosMax THEN DecOk(m, 1)
         ELSE IF m >= FixNegMin THEN DecOk(m - ByteRange, 1)
         ELSE IF m \in {MarkerU8, MarkerI8} THEN
             IF Len(in) < 2 THEN DecNeed ELSE DecOk(in[2], 2)
         ELSE DecErr

\* The integer at the head of `in`, whatever its MessagePack family.
DecodeNum(in) ==
    IF in = <<>> THEN DecNeed
    ELSE LET m == Head(in) IN
         IF m <= FixPosMax THEN DecOk(m, 1)
         ELSE IF m >= FixNegMin THEN DecOk(m - ByteRange, 1)
         ELSE IF m = MarkerU8 THEN
             IF Len(in) < 2 THEN DecNeed ELSE DecOk(in[2], 2)
         ELSE IF m = MarkerI8 THEN
             IF Len(in) < 2 THEN DecNeed
             ELSE DecOk(IF in[2] >= ByteRange \div 2 THEN in[2] - ByteRange ELSE in[2], 2)
         ELSE IF m = MarkerU16 THEN
             IF Len(in) < 3 THEN DecNeed ELSE DecOk(in[2] * ByteRange + in[3], 3)
         ELSE IF m = MarkerI16 THEN
             IF Len(in) < 3 THEN DecNeed
             ELSE LET w == in[2] * ByteRange + in[3]
                  IN DecOk(IF w >= WordRange \div 2 THEN w - WordRange ELSE w, 3)
         ELSE DecErr

DecodeLenient(ty, in) ==
    IF ty = "bool" THEN
        IF in = <<>> THEN DecNeed
        ELSE DecOk(IF Head(in) = MarkerTrue THEN 1 ELSE 0, 1)
    ELSE LET d == DecodeNum(in) IN
         IF d.st = "err" THEN DecOk(0, 1) ELSE d

\* Deserialize one value of type ty from the head of `in`; v is Num-coded.
Decode(ty, in) ==
    IF ty = "bool" THEN
        IF in = <<>> THEN DecNeed
        ELSE IF Head(in) = MarkerTrue THEN DecOk(1, 1)
        ELSE IF Head(in) = MarkerFalse THEN DecOk(0, 1)
        ELSE DecErr
    ELSE LET d == DecodeNum(in) IN
         IF d.st = "ok" /\ ty = "uint" /\ d.v < 0 THEN DecErr ELSE d

(***************************************************************************)
(* The carrier: impl ChannelSend / ChannelRecv for Value<T>, impl Carrier. *)
(* A send is given the fault f its stream operations meet:                 *)
(*   none    every operation succeeds                                      *)
(*   encode  the serializer rejects the value before writing anything      *)
(*   write   the stream's write fails after f.n bytes of the encoding      *)
(*   flush   the stream's flush fails                                      *)
(***************************************************************************)
NoFault == [kind |-> "none", n |-> 0]

SendFaults(ty, v) ==
    {NoFault, [kind |-> "encode", n |-> 0], [kind |-> "flush", n |-> 0]}
    \cup {[kind |-> "write", n |-> k] : k \in 0..(Len(Encode(ty, v)) - 1)}

\* self.0.serialize(&mut Serializer::new(&mut carrier.rw)): encodes and writes
\* the bytes straight into the stream; a failed write is the serializer's error.
Serialize(out, ty, v, f) ==
    IF f.kind = "encode" THEN [ok |-> FALSE, out |-> out]
    ELSE IF f.kind = "write"
         THEN [ok |-> FALSE, out |-> out \o SubSeq(Encode(ty, v), 1, f.n)]
    ELSE [ok |-> TRUE, out |-> out \o Encode(ty, v)]

\* carrier.rw.flush()
Flush(f) == f.kind # "flush"

SerializeErrAsFlush == "Flush"

\* The error `send` maps a failed serialize() to: .map_err(SendError::Encode)
SerializeErr == "Encode"

\* The error `send` maps a failed flush() to: .map_err(SendError::Flush)
FlushErr == "Flush"

send_dropping_serialize_error(out, ty, v, f) ==
    LET s == Serialize(out, ty, v, f) IN
    IF ~Flush(f) THEN [res |-> FlushErr, out |-> s.out, flushed |-> TRUE]
    ELSE [res |-> "Ok", out |-> s.out, flushed |-> TRUE]

\* ChannelSend::send.  `flushed` tells whether flush() was called.
send(out, ty, v, f) ==
    LET s == Serialize(out, ty, v, f) IN
    IF ~s.ok THEN [res |-> SerializeErr, out |-> s.out, flushed |-> FALSE]
    ELSE IF ~Flush(f) THEN [res |-> FlushErr, out |-> s.out, flushed |-> TRUE]
    ELSE [res |-> "Ok", out |-> s.out, flushed |-> TRUE]

\* ChannelRecv::recv.  eof: the writer of `in` has closed it.  "Block" is the
\* blocking read waiting for more bytes; the action that receives is then
\* not enabled.
recv(in, eof, ty) ==
    LET d == Decode(ty, in) IN
    IF d.st = "ok"
        THEN [res |-> "Ok", v |-> d.v, in |-> SubSeq(in, d.n + 1, Len(in))]
    ELSE IF d.st = "err"
        THEN [res |-> "Decode", v |-> 0, in |-> Tail(in)]
    ELSE IF eof
        THEN [res |-> "Decode", v |-> 0, in |-> <<>>]
    ELSE [res |-> "Block", v |-> 0, in |-> in]

send_choice_as_int(out, choice, f) == send(out, "uint", Num("bool", choice), f)

\* Carrier::send_choice
send_choice(out, choice, f) == send(out, "bool", choice, f)

recv_choice_negated(in, eof) ==
    LET r == recv(in, eof, "bool") IN [r EXCEPT !.v = 1 - r.v]

\* Carrier::recv_choice
recv_choice(in, eof) == recv(in, eof, "bool")

(***************************************************************************)
(* The connection.  A thread that panicked or finished has dropped its     *)
(* Channel, which closes the socket.                                       *)
(***************************************************************************)
CliGone == cli_pc \in {"panicked", "c_closed"}
SrvGone == srv_pc \in {"panicked", "s_stopped"}

\* The reader of direction d will see end-of-stream after the bytes in flight.
Eof(d) == d \in cut \/ (IF d = "c2s" THEN CliGone ELSE SrvGone)

\* Bytes written to direction d no longer reach a reader.
Broken(d) == d \in cut \/ (IF d = "c2s" THEN SrvGone ELSE CliGone)

\* An injected fault needs budget; a write into a broken connection may fail
\* by itself.
FaultAllowed(f, d) ==
    \/ f.kind = "none"
    \/ faults_left > 0
    \/ Broken(d) /\ f.kind = "write" /\ f.n = 0

FaultsAfter(f, d) ==
    IF f.kind = "none" \/ Broken(d) THEN faults_left ELSE faults_left - 1

Msg(ty, v) == [k |-> ty, v |-> Num(ty, v)]

\* The record of a thread's last carrier operation: what it was called with,
\* the fault it met, its result, and whether it called flush().
NoOp == [op |-> "none", ty |-> "bool", v |-> 0, f |-> NoFault, res |-> "Ok",
         flushed |-> FALSE]

SendOp(op, ty, v, f, r) ==
    [op |-> op, ty |-> ty, v |-> Num(ty, v), f |-> f, res |-> r.res,
     flushed |-> r.flushed]

RecvOp(op, ty, r) ==
    [op |-> op, ty |-> ty, v |-> r.v, f |-> NoFault, res |-> r.res,
     flushed |-> FALSE]

\* An entry of a session's trace: the operation, the type of its value, and
\* the value of a choice or an index (payload integers are not recorded).
Entry(op, ty, n) == <<op, ty, IF ty = "int" THEN 0 ELSE n>>

Pop(msgs) == IF msgs = <<>> THEN <<>> ELSE Tail(msgs)

unwrapIgnoringErr(res, okPc) == okPc

\* Result<_, _>::unwrap(): the value, or a panic of the thread.
unwrap(res, okPc) == IF res = "Ok" THEN okPc ELSE "panicked"

\* The session the client thread is in, counting the final Quit exchange of
\* tcp_comm as a session of its own, as the server does; between two calls of
\* `client` it is the session to come.
CliSessionNo ==
    IF cli_pc \in {"c_idle", "c_ret", "c_quit2", "c_closed"}
    THEN cli_sessions + 1 ELSE cli_sessions

(***************************************************************************)
(* One carrier operation of the client thread.  A thread that panics       *)
(* unwinds: its locals are gone and its Channel is dropped, so whatever    *)
(* was in flight towards it is discarded with the socket.                  *)
(***************************************************************************)
ClientSend(op, ty, v, okPc) ==
    \E f \in SendFaults(ty, v) :
        /\ FaultAllowed(f, "c2s")
        /\ LET r == IF op = "send_choice" THEN send_choice(c2s, v, f)
                    ELSE send(c2s, ty, v, f)
           IN /\ c2s' = IF Broken("c2s") THEN c2s ELSE r.out
              /\ c2s_msgs' = IF r.res = "Ok" /\ ~Broken("c2s")
                             THEN Append(c2s_msgs, Msg(ty, v)) ELSE c2s_msgs
              /\ c2s_sess' = IF r.res = "Ok" /\ ~Broken("c2s")
                             THEN Append(c2s_sess, CliSessionNo) ELSE c2s_sess
              /\ cli_op' = SendOp(op, ty, v, f, r)
              /\ cli_trace' = Append(cli_trace, Entry(op, ty, Num(ty, v)))
              /\ cli_err' = IF r.res = "Ok" THEN cli_err ELSE r.res
              /\ cli_pc' = unwrap(r.res, okPc)
              /\ s2c' = IF r.res = "Ok" /\ okPc # "c_closed" THEN s2c ELSE <<>>
              /\ s2c_msgs' = IF r.res = "Ok" /\ okPc # "c_closed" THEN s2c_msgs ELSE <<>>
              /\ s2c_sess' = IF r.res = "Ok" /\ okPc # "c_closed" THEN s2c_sess ELSE <<>>
        /\ faults_left' = FaultsAfter(f, "c2s")
        /\ UNCHANGED <<cut, cli_sessions>>
        /\ UNCHANGED srvVars

\* r is the result of recv / recv_choice on s2c; okPc the position after it.
ClientRecv(op, ty, r, okPc) ==
    /\ r.res # "Block"
    /\ cli_pc' = unwrap(r.res, okPc)
    /\ s2c' = IF cli_pc' = "panicked" THEN <<>> ELSE r.in
    /\ s2c_msgs' = IF cli_pc' = "panicked" THEN <<>> ELSE Pop(s2c_msgs)
    /\ s2c_sess' = IF cli_pc' = "panicked" THEN <<>> ELSE Pop(s2c_sess)
    /\ cli_op' = RecvOp(op, ty, r)
    /\ cli_trace' = Append(cli_trace, Entry(op, ty, r.v))
    /\ cli_err' = IF r.res = "Ok"
                  THEN (IF okPc = "panicked" THEN "NoOption" ELSE cli_err)
                  ELSE r.res
    /\ UNCHANGED <<c2s, c2s_msgs, c2s_sess, cut, faults_left, cli_sessions>>
    /\ UNCHANGED srvVars

\* The locals of `client` after a carrier operation: the loop position and the
\* result become pos and mp, unless the operation panicked.
ClientLocals(pos, mp) ==
    IF cli_pc' = "panicked"
    THEN /\ cli_sample' = 0 /\ cli_values' = <<>> /\ cli_pos' = 0
         /\ maybe_pos' = <<>> /\ prev_pos' = <<>>
    ELSE /\ cli_pos' = pos /\ maybe_pos' = mp
         /\ UNCHANGED <<cli_sample, cli_values, prev_pos>>

(***************************************************************************)
(* tcp_comm, the client side, and `client`.                                *)
(***************************************************************************)
FirstChoice == TRUE     \* first(): send_choice(true)
SkipChoice == FALSE     \* second(): send_choice(false), then first()

\* client(Chan::new(carrier), sample, values); vals, maxLen and maxSessions
\* bound the inputs tcp_comm gives.
ClientBegin(vals, maxLen, maxSessions) ==
    /\ cli_pc \in {"c_idle", "c_ret"}
    /\ cli_sessions < maxSessions
    /\ \E sm \in vals, vs \in SeqsUpTo(vals, maxLen) :
        /\ cli_sample' = sm
        /\ cli_values' = vs
    /\ cli_pos' = 0
    /\ prev_pos' = maybe_pos
    /\ maybe_pos' = <<>>
    /\ cli_sessions' = cli_sessions + 1
    /\ cli_trace' = <<>>
    /\ cli_op' = NoOp
    /\ cli_pc' = "c_start"
    /\ UNCHANGED cli_err
    /\ UNCHANGED netVars
    /\ UNCHANGED srvVars

\* .first().unwrap(): choose the searching session
ClientProceed ==
    /\ cli_pc = "c_start"
    /\ ClientSend("send_choice", "bool", FirstChoice, "c_sample")
    /\ ClientLocals(cli_pos, maybe_pos)

\* .send(Value::new(sample)).unwrap().enter()
ClientSendSample ==
    /\ cli_pc = "c_sample"
    /\ ClientSend("send", "int", cli_sample, "c_loop")
    /\ ClientLocals(cli_pos, maybe_pos)

\* for value in values { chan.first().unwrap() ...
ClientHasNext ==
    /\ cli_pc = "c_loop"
    /\ cli_pos < Len(cli_values)
    /\ ClientSend("send_choice", "bool", FirstChoice, "c_value")
    /\ ClientLocals(cli_pos + 1, maybe_pos)

AfterCandidateNoOffer == "c_loop"

\* Where `client` is after it sent a candidate: at the .offer() that waits for
\* the server's answer.
AfterCandidate == "c_offer1"

\* .send(Value::new(value)).unwrap()
ClientSendValue ==
    /\ cli_pc = "c_value"
    /\ ClientSend("send", "int", cli_values[cli_pos], AfterCandidate)
    /\ ClientLocals(cli_pos, maybe_pos)

\* .offer().option(|chan_not_found| Err(chan_not_found.zero()))
ClientOfferNotFound ==
    /\ cli_pc = "c_offer1"
    /\ LET r == recv_choice(s2c, Eof("s2c"))
       IN ClientRecv("recv_choice", "bool", r, IF r.v = 1 THEN "c_loop" ELSE "c_offer2")
    /\ ClientLocals(cli_pos, maybe_pos)

AfterFoundNoIndex == "c_ret"

\* Where `client` is after the server's `found` choice: at the recv of the
\* index.
AfterFound == "c_index"

\* .option(|chan_found| Ok(chan_found)).unwrap(): no option is left after it
ClientOfferFound ==
    /\ cli_pc = "c_offer2"
    /\ LET r == recv_choice(s2c, Eof("s2c"))
       IN ClientRecv("recv_choice", "bool", r, IF r.v = 1 THEN AfterFound ELSE "panicked")
    /\ ClientLocals(cli_pos, maybe_pos)

\* let (next_chan, vindex) = next_chan.recv().unwrap();
\* return (next_chan.shutdown(), Some(vindex.get()));
ClientRecvIndex ==
    /\ cli_pc = "c_index"
    /\ LET r == recv(s2c, Eof("s2c"), "uint")
       IN /\ ClientRecv("recv", "uint", r, "c_ret")
          /\ ClientLocals(cli_pos, <<r.v>>)

\* (chan.second().unwrap().shutdown(), None): the skip of second()
ClientDoneSkip ==
    /\ cli_pc = "c_loop"
    /\ cli_pos = Len(cli_values)
    /\ ClientSend("send_choice", "bool", SkipChoice, "c_done2")
    /\ ClientLocals(cli_pos, maybe_pos)

DoneResultSomeZero == <<0>>

\* The Option<usize> `client` returns after Done: None
DoneResult == <<>>

\* (chan.second().unwrap().shutdown(), None): the first() of second()
ClientDone ==
    /\ cli_pc = "c_done2"
    /\ ClientSend("send_choice", "bool", FirstChoice, "c_ret")
    /\ ClientLocals(cli_pos, DoneResult)

\* Chan::<_, (), CliProto>::new(carrier).second(): the skip of second().
\* The inputs and the result of the last `client` call are gone by now.
ClientQuitSkip ==
    /\ cli_pc \in {"c_idle", "c_ret"}
    /\ ClientSend("send_choice", "bool", SkipChoice, "c_quit2")
    /\ cli_sample' = 0
    /\ cli_values' = <<>>
    /\ cli_pos' = 0
    /\ maybe_pos' = <<>>
    /\ prev_pos' = <<>>

\* .second().unwrap().close(): the first() of second(), then the close
ClientQuit ==
    /\ cli_pc = "c_quit2"
    /\ ClientSend("send_choice", "bool", FirstChoice, "c_closed")
    /\ ClientLocals(cli_pos, maybe_pos)

ClientOps ==
    \/ ClientProceed \/ ClientSendSample \/ ClientHasNext
    \/ ClientSendValue \/ ClientOfferNotFound \/ ClientOfferFound
    \/ ClientRecvIndex \/ ClientDoneSkip \/ ClientDone
    \/ ClientQuitSkip \/ ClientQuit

(***************************************************************************)
(* One carrier operation of the server thread.                             *)
(***************************************************************************)
ServerSend(op, ty, v, okPc) ==
    \E f \in SendFaults(ty, v) :
        /\ FaultAllowed(f, "s2c")
        /\ LET r == IF op = "send_choice" THEN send_choice(s2c, v, f)
                    ELSE send(s2c, ty, v, f)
           IN /\ s2c' = IF Broken("s2c") THEN s2c ELSE r.out
              /\ s2c_msgs' = IF r.res = "Ok" /\ ~Broken("s2c")
                             THEN Append(s2c_msgs, Msg(ty, v)) ELSE s2c_msgs
              /\ s2c_sess' = IF r.res = "Ok" /\ ~Broken("s2c")
                             THEN Append(s2c_sess, srv_sessions) ELSE s2c_sess
              /\ srv_op' = SendOp(op, ty, v, f, r)
              /\ srv_trace' = Append(srv_trace, Entry(op, ty, Num(ty, v)))
              /\ srv_err' = IF r.res = "Ok" THEN srv_err ELSE r.res
              /\ srv_pc' = unwrap(r.res, okPc)
              /\ c2s' = IF r.res = "Ok" THEN c2s ELSE <<>>
              /\ c2s_msgs' = IF r.res = "Ok" THEN c2s_msgs ELSE <<>>
              /\ c2s_sess' = IF r.res = "Ok" THEN c2s_sess ELSE <<>>
        /\ faults_left' = FaultsAfter(f, "s2c")
        /\ UNCHANGED <<cut, srv_sessions>>
        /\ UNCHANGED cliVars

\* r is the result of recv / recv_choice on c2s; okPc the position after it;
\* more: what the handler does with the value before its next carrier operation.
ServerRecv(op, ty, r, okPc, more) ==
    /\ r.res # "Block"
    /\ srv_pc' = unwrap(r.res, okPc)
    /\ c2s' = IF srv_pc' = "panicked" THEN <<>> ELSE r.in
    /\ c2s_msgs' = IF srv_pc' = "panicked" THEN <<>> ELSE Pop(c2s_msgs)
    /\ c2s_sess' = IF srv_pc' = "panicked" THEN <<>> ELSE Pop(c2s_sess)
    /\ srv_op' = RecvOp(op, ty, r)
    /\ srv_trace' = IF r.res = "Ok" THEN Append(srv_trace, Entry(op, ty, r.v)) \o more
                    ELSE Append(srv_trace, Entry(op, ty, r.v))
    /\ srv_err' = IF r.res = "Ok"
                  THEN (IF okPc = "panicked" THEN "NoOption" ELSE srv_err)
                  ELSE r.res
    /\ UNCHANGED <<s2c, s2c_msgs, s2c_sess, cut, faults_left, srv_sessions>>
    /\ UNCHANGED cliVars

\* The locals and the return value of `server` after a carrier operation:
\* sample and values_count become sm and count; when the operation returns
\* from `server` (to "s_ret") the flag is flag, the session ended as end, and
\* `sample` is gone.
ServerLocals(sm, count, flag, end) ==
    IF srv_pc' = "panicked"
    THEN /\ srv_sample' = 0 /\ values_count' = 0
         /\ UNCHANGED <<shutdown, srv_end>>
    ELSE IF srv_pc' = "s_ret"
    THEN /\ srv_sample' = 0 /\ values_count' = count
         /\ shutdown' = flag /\ srv_end' = end
    ELSE /\ srv_sample' = sm /\ values_count' = count
         /\ UNCHANGED <<shutdown, srv_end>>

(***************************************************************************)
(* `server`, and the worker loop of tcp_comm's server thread.              *)
(***************************************************************************)
\* chan.offer().option(Ok): Ok(chan_proceed) => chan_proceed
ServerOfferProceed ==
    /\ srv_pc = "s_start1"
    /\ LET r == recv_choice(c2s, Eof("c2s"))
       IN ServerRecv("recv_choice", "bool", r,
                     IF r.v = 1 THEN "s_sample" ELSE "s_start2", <<>>)
    /\ ServerLocals(srv_sample, values_count, shutdown, srv_end)

QuitFlagFalse == FALSE

\* The flag of return (chan_stop.shutdown(), true)
QuitFlag == TRUE

\* .option(Err).unwrap(): Err(chan_stop) => return (chan_stop.shutdown(), true)
ServerOfferQuit ==
    /\ srv_pc = "s_start2"
    /\ LET r == recv_choice(c2s, Eof("c2s"))
       IN ServerRecv("recv_choice", "bool", r,
                     IF r.v = 1 THEN "s_ret" ELSE "panicked", <<>>)
    /\ ServerLocals(srv_sample, values_count, QuitFlag, "Quit")

InitialCountStale(stale) == stale

\* let mut values_count = 0; (stale: what the variable held before)
InitialCount(stale) == 0

\* let (chan, vsample) = chan.recv().unwrap(); let sample = vsample.get();
\* let mut chan = chan.enter(); let mut values_count = 0;
ServerRecvSample ==
    /\ srv_pc = "s_sample"
    /\ LET r == recv(c2s, Eof("c2s"), "int")
       IN /\ ServerRecv("recv", "int", r, "s_scan1", <<>>)
          /\ ServerLocals(r.v, InitialCount(values_count), shutdown, srv_end)

\* chan.offer().option(|chan_value| ...): the client sends a value to compare
ServerOfferValue ==
    /\ srv_pc = "s_scan1"
    /\ LET r == recv_choice(c2s, Eof("c2s"))
       IN ServerRecv("recv_choice", "bool", r,
                     IF r.v = 1 THEN "s_value" ELSE "s_scan2", <<>>)
    /\ ServerLocals(srv_sample, values_count, shutdown, srv_end)

DoneFlagTrue == TRUE

\* The flag of return (carrier, false) after the client's Done
DoneFlag == FALSE

\* .option(|chan_stop| Err(chan_stop.shutdown())).unwrap();
\* Err(carrier) => return (carrier, false)
ServerOfferDone ==
    /\ srv_pc = "s_scan2"
    /\ LET r == recv_choice(c2s, Eof("c2s"))
       IN ServerRecv("recv_choice", "bool", r,
                     IF r.v = 1 THEN "s_ret" ELSE "panicked", <<>>)
    /\ ServerLocals(srv_sample, values_count, DoneFlag, "Done")

MatchesLessOrEqual(value, sample) == value <= sample

\* if vvalue.get() == sample
Matches(value, sample) == value = sample

\* Ok(chan_value.recv().unwrap()), then the comparison of vvalue with the sample
ServerRecvValue ==
    /\ srv_pc = "s_value"
    /\ LET r == recv(c2s, Eof("c2s"), "int")
           eq == Matches(r.v, srv_sample)
       IN ServerRecv("recv", "int", r, IF eq THEN "s_found1" ELSE "s_notfound",
                     <<Entry("cmp", "bool", Num("bool", eq))>>)
    /\ ServerLocals(srv_sample, values_count, shutdown, srv_end)

NextCountUnchanged(count) == count

\* values_count += 1;
NextCount(count) == count + 1

\* chan = next_chan.first().unwrap().zero(); ... values_count += 1;
ServerNotFound ==
    /\ srv_pc = "s_notfound"
    /\ ServerSend("send_choice", "bool", FirstChoice, "s_scan1")
    /\ ServerLocals(srv_sample, NextCount(values_count), shutdown, srv_end)

\* next_chan.second(): the skip of second()
ServerFoundSkip ==
    /\ srv_pc = "s_found1"
    /\ ServerSend("send_choice", "bool", SkipChoice, "s_found2")
    /\ ServerLocals(srv_sample, values_count, shutdown, srv_end)

\* next_chan.second().unwrap(): the first() of second()
ServerFound ==
    /\ srv_pc = "s_found2"
    /\ ServerSend("send_choice", "bool", FirstChoice, "s_index")
    /\ ServerLocals(srv_sample, values_count, shutdown, srv_end)

MatchIndexOffByOne(count) == count + 1

\* The index `server` sends on a match: Value::new(values_count)
MatchIndex(count) == count

\* .send(Value::new(values_count)).unwrap().shutdown(); return (carrier, false);
ServerSendIndex ==
    /\ srv_pc = "s_index"
    /\ ServerSend("send", "uint", MatchIndex(values_count), "s_ret")
    /\ ServerLocals(srv_sample, values_count, FALSE, "Match")

ShouldBreakInverted(flag) == ~flag

ShouldBreakAlways(flag) == TRUE

\* if shutdown { break; }
ShouldBreak(flag) == flag

\* loop { let (next_carrier, shutdown) = server(Chan::new(carrier));
\*        if shutdown { break; } else { carrier = next_carrier; } }
\* After the break the thread ends and drops the carrier.
ServerWorkerLoop ==
    /\ srv_pc = "s_ret"
    /\ IF ShouldBreak(shutdown)
       THEN /\ srv_pc' = "s_stopped"
            /\ c2s' = <<>> /\ c2s_msgs' = <<>> /\ c2s_sess' = <<>>
            /\ UNCHANGED <<srv_sessions, srv_trace, srv_end, srv_op>>
       ELSE /\ srv_pc' = "s_start1"
            /\ srv_sessions' = srv_sessions + 1
            /\ srv_trace' = <<>>
            /\ srv_end' = "none"
            /\ srv_op' = NoOp
            /\ UNCHANGED <<c2s, c2s_msgs, c2s_sess>>
    /\ UNCHANGED <<srv_sample, values_count, shutdown, srv_err>>
    /\ UNCHANGED <<s2c, s2c_msgs, s2c_sess, cut, faults_left>>
    /\ UNCHANGED cliVars

Server ==
    \/ ServerOfferProceed \/ ServerOfferQuit \/ ServerRecvSample
    \/ ServerOfferValue \/ ServerOfferDone \/ ServerRecvValue
    \/ ServerNotFound \/ ServerFoundSkip \/ ServerFound \/ ServerSendIndex
    \/ ServerWorkerLoop

(***************************************************************************)
(* Faults of the byte stream (FaultSpec only).                             *)
(***************************************************************************)
Stream(d) == IF d = "c2s" THEN c2s ELSE s2c

\* The connection loses the tail of what is in flight in direction d and the
\* direction is closed: the reader meets end-of-stream, possibly mid-value.
CutStream ==
    /\ faults_left > 0
    /\ \E d \in {"c2s", "s2c"} \ cut :
        \E n \in 0..Len(Stream(d)) :
            /\ c2s' = IF d = "c2s" THEN SubSeq(c2s, 1, n) ELSE c2s
            /\ s2c' = IF d = "s2c" THEN SubSeq(s2c, 1, n) ELSE s2c
            /\ cut' = cut \cup {d}
    /\ faults_left' = faults_left - 1
    /\ UNCHANGED <<c2s_msgs, s2c_msgs, c2s_sess, s2c_sess>>
    /\ UNCHANGED cliVars
    /\ UNCHANGED srvVars

\* One byte in flight is replaced by a byte that is no MessagePack marker.
CorruptStream ==
    /\ faults_left > 0
    /\ \E d \in {"c2s", "s2c"} :
        \E i \in 1..Len(Stream(d)) :
            /\ c2s' = IF d = "c2s" THEN [c2s EXCEPT ![i] = MarkerNever] ELSE c2s
            /\ s2c' = IF d = "s2c" THEN [s2c EXCEPT ![i] = MarkerNever] ELSE s2c
    /\ faults_left' = faults_left - 1
    /\ UNCHANGED <<c2s_msgs, s2c_msgs, c2s_sess, s2c_sess, cut>>
    /\ UNCHANGED cliVars
    /\ UNCHANGED srvVars

(***************************************************************************)
(* Specifications.                                                         *)
(***************************************************************************)
InitCommon ==
    /\ c2s = <<>> /\ s2c = <<>> /\ c2s_msgs = <<>> /\ s2c_msgs = <<>>
    /\ c2s_sess = <<>> /\ s2c_sess = <<>>
    /\ cut = {}
    /\ cli_pc = "c_idle" /\ cli_sample = 0 /\ cli_values = <<>> /\ cli_pos = 0
    /\ maybe_pos = <<>> /\ prev_pos = <<>> /\ cli_sessions = 0
    /\ cli_err = "none" /\ cli_trace = <<>> /\ cli_op = NoOp
    /\ srv_pc = "s_start1" /\ srv_sample = 0 /\ values_count = 0
    /\ shutdown = FALSE /\ srv_end = "none" /\ srv_sessions = 1
    /\ srv_err = "none" /\ srv_trace = <<>> /\ srv_op = NoOp

\* A reliable, ordered stream: no fault is ever injected.
Init == InitCommon /\ faults_left = 0

Client == ClientBegin(Vals, MaxLen, MaxSessions) \/ ClientOps

Next == Client \/ Server

Spec == Init /\ [][Next]_vars

\* The threads keep running: each takes its next step when it has one.
FairClient == ClientBegin(Vals, FairLen, FairSessions) \/ ClientOps

FairNext == FairClient \/ Server

FairSpec == Init /\ [][FairNext]_vars /\ WF_vars(FairClient) /\ WF_vars(Server)

FaultInit == InitCommon /\ faults_left = MaxFaults

FaultClient == ClientBegin(FaultVals, FaultLen, FaultSessions) \/ ClientOps

FaultNext == FaultClient \/ Server \/ CutStream \/ CorruptStream

FaultSpec == FaultInit /\ [][FaultNext]_vars

(***************************************************************************)
(* Properties.                                                             *)
(***************************************************************************)
\* Some(zero-based index of the first occurrence of sample in values), or None
FirstIndex(sample, values) ==
    LET hits == {i \in 1..Len(values) : values[i] = sample}
    IN IF hits = {} THEN <<>>
       ELSE <<(CHOOSE i \in hits : \A j \in hits : i <= j) - 1>>

\* C1: one client session against one server session on a fresh reliable
\* stream returns Some(index of the first occurrence of sample in values),
\* or None when sample does not occur (also for empty values).
C1_FirstOccurrence ==
    (cli_pc = "c_ret" /\ cli_sessions = 1)
        => maybe_pos = FirstIndex(cli_sample, cli_values)

\* A first session returned index 1 although the sample is also at index 2.
C1_Witness ==
    /\ cli_pc = "c_ret" /\ cli_sessions = 1
    /\ Len(cli_values) = 3
    /\ cli_values[1] # cli_sample
    /\ cli_values[2] = cli_sample /\ cli_values[3] = cli_sample
    /\ maybe_pos = <<1>>

\* C2: in every later session on the same carrier pair the client's result is
\* the first-occurrence index computed from that session's own sample and
\* values, whatever the earlier sessions were given and returned.
C2_SequentialReuse ==
    (cli_pc = "c_ret" /\ cli_sessions >= 2)
        => maybe_pos = FirstIndex(cli_sample, cli_values)

\* A second session found its sample at index 0 after a first session that
\* had found its own at index 2.
C2_Witness ==
    /\ cli_pc = "c_ret" /\ cli_sessions = 2
    /\ prev_pos = <<2>> /\ maybe_pos = <<0>>

\* How a server session may end.
Ends == {"Quit", "Done", "Match"}

\* The last carrier operation of a session's trace.
LastOf(trace) == trace[Len(trace)]

\* The server session that returned ended the way srv_end says, and in one way
\* only: Quit and Done end on a choice the client sent, Match on the index
\* the server sent.
EndedOneWay ==
    srv_pc = "s_ret" =>
        /\ srv_end \in Ends
        /\ srv_end = "Quit" <=> srv_trace = <<Entry("recv_choice", "bool", 0),
                                              Entry("recv_choice", "bool", 1)>>
        /\ srv_end = "Match" <=> LastOf(srv_trace)[1] = "send"
        /\ srv_end = "Done" <=> (/\ LastOf(srv_trace) = Entry("recv_choice", "bool", 1)
                                 /\ srv_trace[1] = Entry("recv_choice", "bool", 1))

\* C3: on a stream that delivers every message, under fair scheduling of the
\* two threads, every session that starts reaches its terminal state on both
\* endpoints, and a server session ends in exactly one of Quit, Done, Match.
C3_Termination ==
    /\ [](EndedOneWay)
    /\ (srv_pc = "s_start1") ~> (srv_pc = "s_ret")
    /\ (cli_pc = "c_start") ~> (cli_pc = "c_ret")

\* Both endpoints are at the end of a session that ended in Match after a
\* candidate that did not match.
C3_Witness ==
    /\ srv_pc = "s_ret" /\ srv_end = "Match"
    /\ cli_pc = "c_ret" /\ maybe_pos = <<1>>

\* C4: when the first choice the server reads in a session is Quit (the
\* client's second branch at Start), the server receives no sample and no
\* candidate, compares nothing and sends nothing before it returns, and it
\* returns shouldStopServing = true.
C4_QuitPath ==
    (srv_trace # <<>> /\ srv_trace[1] = Entry("recv_choice", "bool", 0)) =>
        /\ \A i \in 1..Len(srv_trace) : srv_trace[i][1] = "recv_choice"
        /\ Len(srv_trace) <= 2
        /\ srv_pc \in {"s_start2", "s_ret", "s_stopped"}
        /\ srv_pc \in {"s_ret", "s_stopped"} => (shutdown /\ srv_end = "Quit")

\* The server returned from a Quit read at the start of its third session.
C4_Witness ==
    /\ srv_pc = "s_ret" /\ shutdown /\ srv_sessions = 3
    /\ srv_trace = <<Entry("recv_choice", "bool", 0), Entry("recv_choice", "bool", 1)>>

\* The type of value each receiving position expects.
SrvExpects ==
    [s_start1 |-> "bool", s_start2 |-> "bool", s_sample |-> "int",
     s_scan1 |-> "bool", s_scan2 |-> "bool", s_value |-> "int"]
CliExpects == [c_offer1 |-> "bool", c_offer2 |-> "bool", c_index |-> "uint"]

SrvReceiving == srv_pc \in DOMAIN SrvExpects
CliReceiving == cli_pc \in DOMAIN CliExpects

\* C5: whenever an endpoint is about to receive, the next unread message of
\* its inbound direction (if any) is of the kind it expects and decodes as
\* such; and the two endpoints are never both waiting in a receive with both
\* directions empty.
C5_DualityNoDeadlock ==
    /\ (SrvReceiving /\ c2s # <<>>) =>
            /\ c2s_msgs # <<>>
            /\ Head(c2s_msgs).k = SrvExpects[srv_pc]
            /\ Decode(SrvExpects[srv_pc], c2s).st = "ok"
    /\ (CliReceiving /\ s2c # <<>>) =>
            /\ s2c_msgs # <<>>
            /\ Head(s2c_msgs).k = CliExpects[cli_pc]
            /\ Decode(CliExpects[cli_pc], s2c).st = "ok"
    /\ ~(SrvReceiving /\ CliReceiving /\ c2s = <<>> /\ s2c = <<>>)
    /\ cli_pc # "panicked" /\ srv_pc # "panicked"

\* The client waits for the server's answer while the server is about to
\* receive the candidate that is in flight.
C5_Witness ==
    /\ cli_pc = "c_offer1" /\ srv_pc = "s_value"
    /\ c2s # <<>> /\ Head(c2s_msgs).k = "int" /\ s2c = <<>>

Ops == {cli_op, srv_op}
IsSend(o) == o.op \in {"send", "send_choice"}
IsRecv(o) == o.op \in {"recv", "recv_choice"}

WireValues(ty) ==
    IF ty = "bool" THEN BOOLEAN
    ELSE IF ty = "uint" THEN 0..(ByteRange - 1)
    ELSE (-(ByteRange \div 2))..(ByteRange - 1)

IsPrefix(p, q) == Len(p) <= Len(q) /\ SubSeq(q, 1, Len(p)) = p

\* The values of type ty whose encoding can begin like `in`: such an encoding
\* carries the value in its first or second byte, as it is or less ByteRange.
Carried(ty, in) ==
    IF ty = "bool" THEN BOOLEAN
    ELSE LET bytes == {in[i] : i \in 1..(IF Len(in) < 2 THEN Len(in) ELSE 2)}
         IN (bytes \cup {b - ByteRange : b \in bytes}) \cap WireValues(ty)

\* `in` starts with the complete encoding of some value of type ty.
StartsWithValue(ty, in) == \E v \in Carried(ty, in) : IsPrefix(Encode(ty, v), in)

CliStep == Len(cli_trace') > Len(cli_trace)
SrvStep == Len(srv_trace') > Len(srv_trace)

\* C7: a recv or recv_choice that finds its inbound stream malformed,
\* truncated in the middle of a value or at end-of-stream returns the Decode
\* error, never Ok; and a thread that got the Decode error performs no further
\* carrier operation and starts no further session.
C7_RecvErrors ==
    [][/\ (SrvStep /\ IsRecv(srv_op') /\ ~StartsWithValue(srv_op'.ty, c2s))
            => (srv_op'.res = "Decode" /\ srv_err' = "Decode")
       /\ (CliStep /\ IsRecv(cli_op') /\ ~StartsWithValue(cli_op'.ty, s2c))
            => (cli_op'.res = "Decode" /\ cli_err' = "Decode")
       /\ srv_err = "Decode"
            => UNCHANGED <<srv_pc, srv_trace, srv_op, srv_sessions, srv_err>>
       /\ cli_err = "Decode"
            => UNCHANGED <<cli_pc, cli_trace, cli_op, cli_sessions, cli_err>>
      ]_vars

\* The server's recv of an integer met the end of a cut stream and the server
\* thread panicked with the Decode error.
C7_Witness ==
    /\ srv_pc = "panicked" /\ srv_err = "Decode"
    /\ srv_op.op = "recv" /\ srv_op.res = "Decode" /\ "c2s" \in cut

\* C8 as amended: every carrier-level error (encode, write/flush, decode) at
\* any step of a server or client session aborts the session at once by a
\* panic of the thread (unwrap): the thread performs no further send or
\* receive, the failed operation is not retried, and the handler does not
\* return to its caller, which gets neither the carrier nor a result.
C8_ErrorsAbort ==
    [][/\ (SrvStep /\ srv_op'.res # "Ok")
            => (srv_pc' = "panicked" /\ srv_err' = srv_op'.res)
       /\ (CliStep /\ cli_op'.res # "Ok")
            => (cli_pc' = "panicked" /\ cli_err' = cli_op'.res)
       /\ srv_err # "none"
            => (/\ srv_pc = "panicked"
                /\ UNCHANGED <<srv_pc, srv_trace, srv_op, srv_sessions, srv_err,
                               shutdown, srv_end>>)
       /\ cli_err # "none"
            => (/\ cli_pc = "panicked"
                /\ UNCHANGED <<cli_pc, cli_trace, cli_op, cli_sessions, cli_err,
                               maybe_pos>>)
      ]_vars

\* C8 as stated: after a carrier-level error the handler has returned to its
\* caller, which holds the error.
C8_Original ==
    /\ srv_err # "none" => srv_pc = "s_ret"
    /\ cli_err # "none" => cli_pc = "c_ret"

\* The server's flush failed while it sent the match index; the server thread
\* panicked in the middle of its session.
C8_Witness ==
    /\ srv_pc = "panicked" /\ srv_err = "Flush"
    /\ srv_op.op = "send" /\ srv_op.ty = "uint" /\ srv_end = "none"

\* C9: send_choice(b) writes what send(Value(b)) writes and returns what it
\* returns, under every fault; recv_choice() consumes what recv::<bool>
\* consumes and returns its boolean or its error; choices travel in the same
\* streams as the values.
C9_ChoiceIsBool ==
    [][/\ (CliStep /\ cli_op'.op = "send_choice") =>
            LET r == send(c2s, "bool", cli_op'.v = 1, cli_op'.f)
            IN /\ cli_op'.res = r.res
               /\ cli_op'.flushed = r.flushed
               /\ ~Broken("c2s") => c2s' = r.out
       /\ (SrvStep /\ srv_op'.op = "send_choice") =>
            LET r == send(s2c, "bool", srv_op'.v = 1, srv_op'.f)
            IN /\ srv_op'.res = r.res
               /\ srv_op'.flushed = r.flushed
               /\ ~Broken("s2c") => s2c' = r.out
       /\ (CliStep /\ cli_op'.op = "recv_choice") =>
            LET r == recv(s2c, Eof("s2c"), "bool")
            IN /\ cli_op'.res = r.res /\ cli_op'.v = r.v
               /\ r.res = "Ok" => s2c' = r.in
       /\ (SrvStep /\ srv_op'.op = "recv_choice") =>
            LET r == recv(c2s, Eof("c2s"), "bool")
            IN /\ srv_op'.res = r.res /\ srv_op'.v = r.v
               /\ r.res = "Ok" => c2s' = r.in
      ]_vars

\* The server read the choice `false` the client had sent, and the client's
\* next send_choice met a failing flush.
C9_Witness ==
    /\ srv_op.op = "recv_choice" /\ srv_op.res = "Ok" /\ srv_op.v = 0
    /\ cli_op.op = "send_choice" /\ cli_op.res = "Flush"

\* Decoding `in` value by value, with the types of msgs, gives the values of
\* msgs and uses up every byte.
RECURSIVE DecodesTo(_, _)
DecodesTo(in, msgs) ==
    IF msgs = <<>> THEN in = <<>>
    ELSE LET r == recv(in, FALSE, Head(msgs).k)
         IN /\ r.res = "Ok"
            /\ r.v = Head(msgs).v
            /\ DecodesTo(r.in, Tail(msgs))

\* C10: what is in flight in each direction decodes, value by value, to exactly
\* the values sent and not yet received, in the order sent; and every recv
\* returns the oldest such value, with its type, and removes it alone.
C10_RoundTrip ==
    /\ [](DecodesTo(c2s, c2s_msgs) /\ DecodesTo(s2c, s2c_msgs))
    /\ [][/\ (SrvStep /\ IsRecv(srv_op')) =>
                /\ c2s_msgs # <<>>
                /\ srv_op'.res = "Ok"
                /\ srv_op'.v = Head(c2s_msgs).v /\ srv_op'.ty = Head(c2s_msgs).k
                /\ c2s_msgs' = Tail(c2s_msgs)
          /\ (CliStep /\ IsRecv(cli_op')) =>
                /\ s2c_msgs # <<>>
                /\ cli_op'.res = "Ok"
                /\ cli_op'.v = Head(s2c_msgs).v /\ cli_op'.ty = Head(s2c_msgs).k
                /\ s2c_msgs' = Tail(s2c_msgs)
          /\ (CliStep /\ IsSend(cli_op')) =>
                c2s_msgs' = Append(c2s_msgs, [k |-> cli_op'.ty, v |-> cli_op'.v])
          /\ (SrvStep /\ IsSend(srv_op')) =>
                s2c_msgs' = Append(s2c_msgs, [k |-> srv_op'.ty, v |-> srv_op'.v])
         ]_vars

\* The server received the two-byte sample -33 while the two choices of Done
\* and the start of the next session, with the sample 200, were still in
\* flight behind it.
C10_Witness ==
    /\ srv_op.op = "recv" /\ srv_op.v = -33 /\ srv_op.res = "Ok"
    /\ Len(c2s_msgs) >= 4 /\ c2s_msgs[4].v = 200

\* The sends and the receives among the entries of a session's trace.
IsSendEntry(e) == e[1] \in {"send", "send_choice"}
IsRecvEntry(e) == e[1] \in {"recv", "recv_choice"}
IsValueEntry(e) == e[2] = "int"
Sends(trace) == SelectSeq(trace, IsSendEntry)
Recvs(trace) == SelectSeq(trace, IsRecvEntry)

\* What travels from the server to the client in a session that ends in Match
\* with index i: i `not found` choices, the `found` choice (the skip and the
\* choice of second()), and the index.
MatchReplies(op, valueOp, i) ==
    [j \in 1..i |-> Entry(op, "bool", 1)]
        \o <<Entry(op, "bool", 0), Entry(op, "bool", 1), Entry(valueOp, "uint", i)>>

\* What travels from the server to the client in a session that ends in Done
\* after n candidates: n `not found` choices and nothing else.
DoneReplies(op, n) == [j \in 1..n |-> Entry(op, "bool", 1)]

\* C11: in a session that ends in Match with index i the client has taken and
\* sent exactly the candidates values[0..i], of which only the last equals the
\* sample, and the server has sent i `not found` choices, then the `found`
\* choice, then the index i; in a session that ends in Done the server sends
\* no index and the client returns None.
C11_ScanStops ==
    /\ (cli_pc = "c_ret" /\ maybe_pos # <<>>) =>
        LET i == maybe_pos[1] IN
        /\ cli_pos = i + 1
        /\ Len(SelectSeq(Sends(cli_trace), IsValueEntry)) = 1 + (i + 1)
        /\ cli_values[i + 1] = cli_sample
        /\ \A j \in 1..i : cli_values[j] # cli_sample
        /\ Recvs(cli_trace) = MatchReplies("recv_choice", "recv", i)
    /\ (cli_pc = "c_ret" /\ maybe_pos = <<>>) =>
        /\ cli_pos = Len(cli_values)
        /\ Recvs(cli_trace) = DoneReplies("recv_choice", cli_pos)
    /\ (srv_pc = "s_ret" /\ srv_end = "Match") =>
        /\ Sends(srv_trace) = MatchReplies("send_choice", "send", values_count)
        /\ Len(SelectSeq(Recvs(srv_trace), IsValueEntry)) = 1 + (values_count + 1)
    /\ (srv_pc = "s_ret" /\ srv_end = "Done") =>
        /\ Sends(srv_trace) = DoneReplies("send_choice", values_count)
        /\ Len(SelectSeq(Recvs(srv_trace), IsValueEntry)) = 1 + values_count

\* A session over three candidates ended in Match with index 1: the third
\* candidate, equal to the sample too, was never taken.
C11_Witness ==
    /\ cli_pc = "c_ret" /\ maybe_pos = <<1>> /\ cli_pos = 2
    /\ Len(cli_values) = 3 /\ cli_values[3] = cli_sample
    /\ srv_pc = "s_ret" /\ srv_end = "Match"

\* C12: over any sequence of sessions on one stream, unread messages exist in
\* at most one direction at a time: the client-to-server direction and the
\* server-to-client direction are never both non-empty.
C12_HalfDuplex ==
    /\ ~(c2s # <<>> /\ s2c # <<>>)
    /\ ~(c2s_msgs # <<>> /\ s2c_msgs # <<>>)

\* In a second session the server has returned after a Match and its three
\* messages are all unread, while the client, which sent its candidate, waits.
C12_Witness ==
    /\ cli_sessions = 2 /\ cli_pc = "c_offer1"
    /\ srv_pc = "s_ret" /\ Len(s2c_msgs) = 3 /\ s2c # <<>> /\ c2s = <<>>

\* C13: a server session returns shouldStopServing = true exactly when the
\* choice it read at Start was the client's Quit; a session that ended on the
\* client's Done or on the server's Match returns false.
C13_StopFlag ==
    srv_pc = "s_ret" =>
        /\ shutdown <=> srv_trace[1] = Entry("recv_choice", "bool", 0)
        /\ shutdown <=> srv_end = "Quit"
        /\ shutdown => cli_pc = "c_closed"
        /\ srv_end \in {"Done", "Match"} => ~shutdown

\* A session that ended on Done returned false although the client has
\* already sent its Quit behind it.
C13_Witness ==
    /\ srv_pc = "s_ret" /\ srv_end = "Done" /\ ~shutdown
    /\ cli_pc = "c_closed" /\ Len(c2s_msgs) = 2

\* The comparisons of a server session's trace, one per candidate received.
IsCmpEntry(e) == e[1] = "cmp"
Compared(trace) == SelectSeq(trace, IsCmpEntry)
IsDifferEntry(e) == e = Entry("cmp", "bool", 0)
Differed(trace) == SelectSeq(trace, IsDifferEntry)

\* C14: in every session values_count is 0 when the scan loop is entered
\* after the sample was received; at every offer of the scan loop it is the
\* number of candidates received in the current session so far, all of which
\* differed from the sample; and the index sent on Match is the number of
\* candidates of the current session that differed.
C14_SeenCount ==
    /\ (srv_pc = "s_scan1" /\ Len(srv_trace) = 2) => values_count = 0
    /\ srv_pc \in {"s_scan1", "s_scan2"} =>
        /\ values_count = Len(Compared(srv_trace))
        /\ Differed(srv_trace) = Compared(srv_trace)
    /\ srv_pc \in {"s_found1", "s_found2", "s_index"} =>
        /\ values_count = Len(Differed(srv_trace))
        /\ Len(Compared(srv_trace)) = values_count + 1
    /\ (srv_pc = "s_ret" /\ srv_end = "Match") =>
        /\ LastOf(srv_trace) = Entry("send", "uint", Len(Differed(srv_trace)))
        /\ Len(Compared(srv_trace)) = Len(Differed(srv_trace)) + 1

\* In its second session the server is back at the offer of the scan loop
\* after two candidates that differed from the sample.
C14_Witness ==
    /\ srv_sessions = 2 /\ srv_pc = "s_scan1"
    /\ values_count = 2 /\ Len(Compared(srv_trace)) = 2

\* The carrier operations that carry the client's protocol messages: Proceed
\* is first(), the sample is a send, Done is second(), which the carrier sees
\* as the two choices false, true.
ProceedOps(op) == <<Entry(op, "bool", 1)>>
SampleOps(op) == <<Entry(op, "int", 0)>>
DoneOps(op) == <<Entry(op, "bool", 0), Entry(op, "bool", 1)>>

\* The last n entries of a trace.
LastOps(trace, n) ==
    IF Len(trace) < n THEN <<>> ELSE SubSeq(trace, Len(trace) - n + 1, Len(trace))

\* C15: with an empty candidate sequence the client's whole session is the
\* three messages Proceed, sample, Done, with no receive, the server sends
\* nothing in that session and the result is None; and whenever the sequence
\* is exhausted without a match the client's last message is Done, the result
\* is None, and the server returns after reading Done without sending.
C15_EmptyOrExhausted ==
    /\ (cli_pc = "c_ret" /\ cli_values = <<>>) =>
        /\ cli_trace = ProceedOps("send_choice") \o SampleOps("send")
                            \o DoneOps("send_choice")
        /\ maybe_pos = <<>>
    /\ (srv_pc = "s_ret" /\ srv_end = "Done" /\ values_count = 0) =>
        srv_trace = ProceedOps("recv_choice") \o SampleOps("recv")
                        \o DoneOps("recv_choice")
    /\ (cli_pc = "c_ret" /\ FirstIndex(cli_sample, cli_values) = <<>>) =>
        /\ LastOps(cli_trace, 2) = DoneOps("send_choice")
        /\ maybe_pos = <<>>
    /\ (srv_pc = "s_ret" /\ srv_end = "Done") =>
        LastOps(srv_trace, 2) = DoneOps("recv_choice")

\* The second session of the run, after a first one that found a match, had
\* no candidate: both endpoints have returned from it, the server after the
\* four receives that carry Proceed, sample and Done, and no send.
C15_Witness ==
    /\ cli_pc = "c_ret" /\ cli_values = <<>> /\ cli_sessions = 2
    /\ prev_pos # <<>> /\ maybe_pos = <<>>
    /\ srv_pc = "s_ret" /\ srv_sessions = 2 /\ Len(srv_trace) = 4

\* serialize() returned success under the fault the operation o met.
Serialized(o) == o.f.kind \notin {"encode", "write"}

\* The bytes a successful serialize() of the value of o writes.
Written(o) == Encode(o.ty, IF o.ty = "bool" THEN o.v = 1 ELSE o.v)

\* What C16 says of one send o that found `out` in its stream and left out2.
SendInOrder(o, out, out2, broken) ==
    /\ o.flushed <=> Serialized(o)
    /\ o.res = "Ok" <=> (Serialized(o) /\ o.f.kind # "flush")
    /\ ~Serialized(o) => (o.res = "Encode" /\ ~o.flushed)
    /\ (Serialized(o) /\ ~broken) => out2 = out \o Written(o)

\* C16: `send` encodes and writes first and flushes second: flush() is called
\* exactly when serialize() returned success, so the whole encoding is in the
\* stream when flush() is tried, even if it then fails; `send` returns Ok only
\* if both steps succeeded; when serialize() fails no flush is performed and
\* the Encode error is returned.
C16_SendOrder ==
    [][/\ (CliStep /\ IsSend(cli_op')) =>
            SendInOrder(cli_op', c2s, c2s', Broken("c2s"))
       /\ (SrvStep /\ IsSend(srv_op')) =>
            SendInOrder(srv_op', s2c, s2c', Broken("s2c"))
      ]_vars

\* The client's send of a two-byte sample wrote both bytes, then its flush
\* failed and the client panicked with the Flush error.
C16_Witness ==
    /\ cli_op.op = "send" /\ cli_op.ty = "int" /\ cli_op.f.kind = "flush"
    /\ cli_op.flushed /\ cli_op.res = "Flush" /\ cli_pc = "panicked"
    /\ Len(c2s) = 3

\* What a step may do once `server` has returned, and once the worker stopped.
WorkerStep ==
    /\ (srv_pc = "s_ret" /\ srv_pc' # "s_ret" /\ ~shutdown) =>
            /\ srv_pc' = "s_start1"
            /\ srv_sessions' = srv_sessions + 1
            /\ UNCHANGED <<c2s, s2c>>
    /\ (srv_pc = "s_ret" /\ srv_pc' # "s_ret" /\ shutdown) =>
            srv_pc' = "s_stopped"
    /\ srv_pc = "s_stopped" =>
            UNCHANGED <<srv_pc, srv_trace, srv_op, srv_sessions, s2c>>

\* C17: after every session that returned shouldStopServing = false the
\* worker starts a new session on the carrier the session returned; after the
\* first session that returned true it stops and never uses the carrier
\* again; it stops only after it read the client's Quit; and for a client
\* that runs finitely many sessions and then chooses Quit it eventually stops.
C17_WorkerLoop ==
    /\ [][WorkerStep]_vars
    /\ [](srv_pc = "s_stopped" =>
            /\ srv_end = "Quit"
            /\ srv_trace = DoneOps("recv_choice")
            /\ cli_pc = "c_closed")
    /\ <>(srv_pc = "s_stopped")

\* The worker served one search session, started a second session on the
\* returned carrier, read Quit there and stopped.
C17_Witness ==
    /\ srv_pc = "s_stopped" /\ srv_sessions = 2 /\ shutdown
    /\ cli_pc = "c_closed" /\ cli_sessions = 1

\* A receive takes a message of the receiver's own session.
ReadsOwnSession ==
    /\ (SrvStep /\ IsRecv(srv_op')) =>
            (c2s_sess # <<>> /\ Head(c2s_sess) = srv_sessions)
    /\ (CliStep /\ IsRecv(cli_op')) =>
            (s2c_sess # <<>> /\ Head(s2c_sess) = cli_sessions)

\* When `server` has returned: the client sends nothing more in that session
\* (it is past it, or reads the answers of a Match, or has closed after its
\* Quit), nothing of that session is unread, and what is unread starts with
\* the Start choice of the next session.
ServerReturnedAligned ==
    srv_pc = "s_ret" =>
        /\ CliSessionNo >= srv_sessions
        /\ CliSessionNo = srv_sessions =>
                \/ cli_pc \in {"c_offer1", "c_offer2", "c_index"} /\ srv_end = "Match"
                \/ cli_pc = "c_closed" /\ srv_end = "Quit"
        /\ \A i \in 1..Len(c2s_sess) : c2s_sess[i] > srv_sessions
        /\ c2s_sess # <<>> =>
                (Head(c2s_sess) = srv_sessions + 1 /\ Head(c2s_msgs).k = "bool")

\* At the start of a server session the next unread message, if any, is a
\* choice the client sent in its session of the same number.
ServerStartAligned ==
    (srv_pc = "s_start1" /\ c2s_sess # <<>>) =>
        (Head(c2s_sess) = srv_sessions /\ Head(c2s_msgs).k = "bool")

\* When `client` has returned nothing is unread from the server, and the
\* server is in the session the client returned from, or an earlier one, or
\* waits for the first message of the next.
ClientReturnedAligned ==
    cli_pc = "c_ret" =>
        /\ s2c = <<>> /\ s2c_msgs = <<>>
        /\ srv_sessions <= cli_sessions + 1
        /\ srv_sessions = cli_sessions + 1 => (srv_pc = "s_start1" /\ c2s = <<>>)

\* C18: whenever the server returns from a session it has consumed exactly
\* the messages the client sent for that session and none of a later one, so
\* the first message it reads in its next session is the Start choice of the
\* client's next session; and when the client returns from a session the
\* server-to-client direction holds no unread message.
C18_SessionsAligned ==
    /\ [][ReadsOwnSession]_vars
    /\ [](ServerReturnedAligned /\ ServerStartAligned /\ ClientReturnedAligned)

\* The server has returned from its first session while the whole second
\* session of the client and the skip of its Quit are unread behind it.
C18_Witness ==
    /\ srv_pc = "s_ret" /\ srv_sessions = 1 /\ srv_end = "Done"
    /\ cli_pc = "c_quit2" /\ cli_sessions = 2
    /\ Head(c2s_sess) = 2 /\ c2s_sess[Len(c2s_sess)] = 3

====
